---- MODULE Spec2Model ----
(***************************************************************************)
(* Validated value types of the REST models (api_v3/rest/models):          *)
(* ClientId, a String newtype whose only constructors check the length,    *)
(* and the validation errors of error.rs.                                  *)
(*                                                                         *)
(* A Rust String is modelled as the sequence of its chars (Unicode scalar  *)
(* values, as integers).  Its len() is the number of bytes of its UTF-8    *)
(* encoding, which is what ClientId::try_from compares with the bounds.    *)
(***************************************************************************)
EXTENDS Integers, Sequences, FiniteSets, TLC

\* ClientId::MIN_LEN
MIN_LEN == 1

\* ClientId::MAX_LEN
MAX_LEN == 64

\* Longest run of one repeated char among the inputs, in bytes.
MaxRepeat == 66

\* Longest free-form input over Alphabet, in chars.
MaxShort == 2

\* How far below zero and above CrossLeverage::MAX the numbers go.
MaxBeyond == 4

---------------------------------------------------------------------------
(* Strings *)

\* 'a', '"', '\', U+00E9 (2 bytes), U+20AC (3 bytes), U+1F600 (4 bytes)
Alphabet == {97, 34, 92, 233, 8364, 128512}

\* The chars the long inputs repeat: 'a' and U+00E9.
FillChars == {97, 233}

QUOTE == 34

BACKSLASH == 92

\* UTF-8 encoding of one char.
encode_utf8(c) ==
    IF c < 128 THEN <<c>>
    ELSE IF c < 2048 THEN <<192 + (c \div 64), 128 + (c % 64)>>
    ELSE IF c < 65536 THEN
        <<224 + (c \div 4096), 128 + ((c \div 64) % 64), 128 + (c % 64)>>
    ELSE <<240 + (c \div 262144), 128 + ((c \div 4096) % 64),
           128 + ((c \div 64) % 64), 128 + (c % 64)>>

RECURSIVE as_bytes(_)
\* The bytes a String stores: the encodings of its chars, in order.
as_bytes(s) ==
    IF Len(s) = 0 THEN <<>>
    ELSE IF Len(s) = 1 THEN encode_utf8(s[1])
    ELSE LET h == Len(s) \div 2
         IN  as_bytes(SubSeq(s, 1, h)) \o as_bytes(SubSeq(s, h + 1, Len(s)))

\* String::len(): the length in bytes.
len(s) == Len(as_bytes(s))

\* s.chars().count(): the length in characters.
chars_count(s) == Len(s)

Repeat(c, n) == [i \in 1..n |-> c]

ShortStrings == UNION {[1..n -> Alphabet] : n \in 0..MaxShort}

FillStrings ==
    {Repeat(c, n) : c \in FillChars, n \in 0..MaxRepeat}
    \cup {<<97>> \o Repeat(c, n) : c \in FillChars, n \in 0..MaxRepeat}

\* The strings handed to the constructors: every short string over Alphabet
\* and the runs of one char of up to MaxRepeat bytes.
Inputs == ShortStrings \cup {s \in FillStrings : len(s) <= MaxRepeat}

---------------------------------------------------------------------------
(* Option and Result *)

None == [tag |-> "None"]

Some(v) == [tag |-> "Some", val |-> v]

Ok(v) == [tag |-> "Ok", val |-> v]

Err(e) == [tag |-> "Err", err |-> e]

---------------------------------------------------------------------------
(* error.rs *)

TooShort(n) == [variant |-> "TooShort", len |-> n]

TooLong(n) == [variant |-> "TooLong", len |-> n]

\* Display of ClientIdValidationError (the thiserror format strings), as the
\* sequence of the literal pieces and the interpolated numbers.
to_string(e) ==
    IF e.variant = "TooShort"
    THEN <<"Client ID must be at least ", MIN_LEN, " character(s). Length: ", e.len>>
    ELSE <<"Client ID must be at most ", MAX_LEN, " characters. Length: ", e.len>>

\* CrossLeverageValidationError: TooLow and TooHigh carry a u64, NotAnInteger
\* carries the f64 it was given.
TooLow(n) == [variant |-> "TooLow", value |-> n]

TooHigh(n) == [variant |-> "TooHigh", value |-> n]

NotAnInteger(v) == [variant |-> "NotAnInteger", value |-> v]

---------------------------------------------------------------------------
(* client_id.rs *)

\* struct ClientId(String): a one-field tuple.
ClientId(s) == <<s>>

as_str(id) == id[1]

into_inner(id) == id[1]

\* try_from with the upper bound excluded.
try_from_ge(value) ==
    IF len(value) < MIN_LEN THEN Err(TooShort(len(value)))
    ELSE IF len(value) >= MAX_LEN THEN Err(TooLong(len(value)))
    ELSE Ok(ClientId(value))

\* try_from with the two error variants exchanged.
try_from_swapped(value) ==
    IF len(value) < MIN_LEN THEN Err(TooLong(len(value)))
    ELSE IF len(value) > MAX_LEN THEN Err(TooShort(len(value)))
    ELSE Ok(ClientId(value))

\* try_from reporting the number of chars of a string that is too long.
try_from_chars(value) ==
    IF len(value) < MIN_LEN THEN Err(TooShort(len(value)))
    ELSE IF len(value) > MAX_LEN THEN Err(TooLong(chars_count(value)))
    ELSE Ok(ClientId(value))

\* try_from without the lower bound.
try_from_no_min(value) ==
    IF len(value) > MAX_LEN THEN Err(TooLong(len(value)))
    ELSE Ok(ClientId(value))

\* impl TryFrom<String> for ClientId
try_from(value) ==
    IF len(value) < MIN_LEN THEN Err(TooShort(len(value)))
    ELSE IF len(value) > MAX_LEN THEN Err(TooLong(len(value)))
    ELSE Ok(ClientId(value))

\* impl TryFrom<&str> for ClientId: value.to_string() copies the slice into
\* an owned String, which goes through the String constructor.
try_from_str(value) == try_from(value)

\* impl From<ClientId> for String
String_from(value) == value[1]

\* impl AsRef<str> for ClientId
as_ref(id) == id[1]

\* Display through the String's Debug, which writes the string between quotes.
fmt_debug(id) == <<QUOTE>> \o id[1] \o <<QUOTE>>

\* impl Display for ClientId: the String's own Display, which writes the
\* string as it is.
fmt(id) == id[1]

\* derive(Clone)
clone(id) == ClientId(id[1])

\* Equality on the lengths alone.
eq_len(a, b) == len(a[1]) = len(b[1])

\* derive(PartialEq, Eq): the fields are compared; two Strings are equal
\* when their bytes are.
eq(a, b) == as_bytes(a[1]) = as_bytes(b[1])

\* derive(Hash): what the field feeds the Hasher, the str's bytes and 0xff.
hash(id) == as_bytes(id[1]) \o <<255>>

---------------------------------------------------------------------------
(* serde: the data model and the JSON text the tests read and write *)

Str(s) == [kind |-> "str", v |-> s]

\* Serialization as a one-element tuple struct.
serialize_seq(id) == [kind |-> "seq", v |-> <<id[1]>>]

\* impl Serialize for ClientId: serializer.serialize_str(&self.0)
serialize(id) == Str(id[1])

\* The places of a text where a char stands that JSON escapes.
Escapes(t) == {i \in 1..Len(t) : t[i] \in {QUOTE, BACKSLASH}}

Min(S) == CHOOSE i \in S : \A j \in S : i <= j

RECURSIVE format_escaped(_)
\* The body of a JSON string: the text is copied up to the next '"' or '\',
\* which is written after a backslash.
format_escaped(s) ==
    IF Escapes(s) = {} THEN s
    ELSE LET i == Min(Escapes(s))
         IN  SubSeq(s, 1, i - 1) \o <<BACKSLASH, s[i]>>
                 \o format_escaped(SubSeq(s, i + 1, Len(s)))

\* serde_json::to_string of a value of the data model: a str is written
\* between quotes, a sequence between brackets.
to_json(tok) ==
    IF tok.kind = "str" THEN <<QUOTE>> \o format_escaped(tok.v) \o <<QUOTE>>
    ELSE <<91>> \o <<QUOTE>> \o format_escaped(tok.v[1]) \o <<QUOTE>> \o <<93>>

RECURSIVE parse_str(_)
\* Reads the body of a JSON string back: the text is copied up to the next
\* '"' or '\'; a backslash stands before a '"' or a '\', a quote of its own
\* would end the string before the end of the text.
parse_str(t) ==
    IF Escapes(t) = {} THEN Ok(t)
    ELSE LET i == Min(Escapes(t))
         IN  IF t[i] = QUOTE
             THEN Err([variant |-> "Syntax", msg |-> <<"trailing characters">>])
             ELSE IF i < Len(t) /\ t[i + 1] \in {QUOTE, BACKSLASH}
             THEN LET r == parse_str(SubSeq(t, i + 2, Len(t)))
                  IN  IF r.tag = "Ok"
                      THEN Ok(SubSeq(t, 1, i - 1) \o <<t[i + 1]>> \o r.val)
                      ELSE r
             ELSE Err([variant |-> "Syntax", msg |-> <<"invalid escape">>])

\* String::deserialize on a JSON text (serde_json::from_str): the text has
\* to be one JSON string.
String_deserialize(text) ==
    IF text = <<>> THEN Err([variant |-> "Syntax", msg |-> <<"EOF">>])
    ELSE IF Head(text) # QUOTE
    THEN Err([variant |-> "InvalidType", msg |-> <<"expected a string">>])
    ELSE IF Len(text) < 2 \/ text[Len(text)] # QUOTE
    THEN Err([variant |-> "Syntax", msg |-> <<"EOF while parsing a string">>])
    ELSE parse_str(SubSeq(text, 2, Len(text) - 1))

\* de::Error::custom
custom(msg) == [variant |-> "Custom", msg |-> msg]

\* Deserialization that wraps the string without the length check.
deserialize_unchecked(text) ==
    LET s == String_deserialize(text)
    IN  IF s.tag = "Err" THEN s ELSE Ok(ClientId(s.val))

\* impl Deserialize for ClientId
deserialize(text) ==
    LET s == String_deserialize(text)
    IN  IF s.tag = "Err" THEN s
        ELSE LET r == try_from(s.val)
             IN  IF r.tag = "Ok" THEN r ELSE Err(custom(to_string(r.err)))

\* JSON texts that are no string: a number, null, an array, an unterminated
\* string, the empty text.
OtherJson == {<<49>>, <<110, 117, 108, 108>>, <<91, 34, 97, 34, 93>>, <<34, 97>>, <<>>}

---------------------------------------------------------------------------
(* CrossLeverage: the validated leverage the errors of error.rs belong to *)

CrossLeverageMIN == 1

CrossLeverageMAX == 100

\* The f64 inputs: the whole numbers and the halves between them, as the
\* floor and whether a half is added to it.
Numbers ==
    [floor : (0 - MaxBeyond)..(CrossLeverageMAX + MaxBeyond), half : BOOLEAN]

\* value.fract() == 0.0
is_integral(value) == ~value.half

\* value as u64: a float-to-integer cast saturates, so a negative number
\* becomes 0.
as_u64(value) == IF value.floor < 0 THEN 0 ELSE value.floor

\* The range check, made on the unsigned integer.
CrossLeverage_from_u64(value) ==
    IF value < CrossLeverageMIN THEN Err(TooLow(value))
    ELSE IF value > CrossLeverageMAX THEN Err(TooHigh(value))
    ELSE Ok(<<value>>)

\* Construction with the range checked first, on the truncated number.
CrossLeverage_range_first(value) ==
    LET r == CrossLeverage_from_u64(as_u64(value))
    IN  IF r.tag = "Err" THEN r
        ELSE IF ~is_integral(value) THEN Err(NotAnInteger(value))
        ELSE r

\* Construction from a number: the fractional check, then the range check.
CrossLeverage_try_from(value) ==
    IF ~is_integral(value) THEN Err(NotAnInteger(value))
    ELSE CrossLeverage_from_u64(as_u64(value))

---------------------------------------------------------------------------
(* The caller: one scope holding a ClientId and a copy of it *)

VARIABLES
    id,     \* Option<ClientId>: the value the scope owns
    copy,   \* Option<ClientId>: a second value made from id
    born,   \* the string the value in id was constructed from
    ret     \* the last call: [op, arg, out]

vars == <<id, copy, born, ret>>

Call(op, arg, out) == [op |-> op, arg |-> arg, out |-> out]

Init ==
    /\ id = None
    /\ copy = None
    /\ born = <<>>
    /\ ret = Call("none", <<>>, None)

\* No call has been made in the scope yet.
Idle == ret.op = "none"

\* A constructor's result opens the scope.
Constructed(op, arg, s, r) ==
    /\ Idle
    /\ ret' = Call(op, arg, r)
    /\ id' = IF r.tag = "Ok" THEN Some(r.val) ELSE None
    /\ born' = IF r.tag = "Ok" THEN s ELSE <<>>
    /\ copy' = None

\* ClientId::try_from(s) for an owned String
TryFromString(s) == Constructed("try_from", s, s, try_from(s))

\* ClientId::try_from(s) for a &str
TryFromStr(s) == Constructed("try_from_str", s, s, try_from_str(s))

\* serde_json::from_str::<ClientId>(json) where json holds the string s
Deserialize(s) == Constructed("deserialize", s, s, deserialize(to_json(Str(s))))

\* serde_json::from_str::<ClientId>(text) for a text that is no string
DeserializeOther(text) ==
    Constructed("deserialize_other", text, <<>>, deserialize(text))

\* A call through &self: the value stays as it is.
Borrowed(op, out) ==
    /\ id.tag = "Some"
    /\ ret' = Call(op, id.val, out)
    /\ UNCHANGED <<id, copy, born>>

AsStr == id.tag = "Some" /\ Borrowed("as_str", as_str(id.val))

AsRef == id.tag = "Some" /\ Borrowed("as_ref", as_ref(id.val))

Display == id.tag = "Some" /\ Borrowed("fmt", fmt(id.val))

Serialize ==
    /\ id.tag = "Some"
    /\ Borrowed("serialize",
                [tok |-> serialize(id.val), json |-> to_json(serialize(id.val))])

Clone ==
    /\ id.tag = "Some"
    /\ copy' = Some(clone(id.val))
    /\ ret' = Call("clone", id.val, copy'.val)
    /\ UNCHANGED <<id, born>>

\* Reads back what Serialize has just written.
DeserializeWire ==
    /\ id.tag = "Some"
    /\ ret.op = "serialize"
    /\ LET r == deserialize(ret.out.json)
       IN  /\ ret' = Call("roundtrip", ret.out.json, r)
           /\ copy' = IF r.tag = "Ok" THEN Some(r.val) ELSE None
    /\ UNCHANGED <<id, born>>

\* A call through self: the value is moved out of the scope.
Consumed(op, out) ==
    /\ id.tag = "Some"
    /\ ret' = Call(op, id.val, out)
    /\ id' = None
    /\ UNCHANGED <<copy, born>>

IntoInner == id.tag = "Some" /\ Consumed("into_inner", into_inner(id.val))

StringFrom == id.tag = "Some" /\ Consumed("String_from", String_from(id.val))

\* ClientId::try_from(x) == ClientId::try_from(y) on two temporaries, with
\* the hashes of both.
Eq(x, y) ==
    /\ Idle
    /\ LET a == try_from(x)
           b == try_from(y)
       IN  ret' = Call("eq", <<x, y>>,
                       IF a.tag = "Ok" /\ b.tag = "Ok"
                       THEN Some([eq |-> eq(a.val, b.val),
                                  hash_eq |-> hash(a.val) = hash(b.val)])
                       ELSE None)
    /\ id' = None
    /\ copy' = None
    /\ born' = <<>>

\* The scope ends: what it held is dropped.
EndScope ==
    /\ ~Idle
    /\ id' = None
    /\ copy' = None
    /\ born' = <<>>
    /\ ret' = Call("none", <<>>, None)

\* CrossLeverage::try_from(v) for a number v
FromNumber(v) ==
    /\ Idle
    /\ ret' = Call("CrossLeverage_try_from", v, CrossLeverage_try_from(v))
    /\ UNCHANGED <<id, copy, born>>

Next ==
    \/ Idle /\ \E s \in Inputs : TryFromString(s)
    \/ Idle /\ \E s \in Inputs : TryFromStr(s)
    \/ Idle /\ \E s \in Inputs : Deserialize(s)
    \/ Idle /\ \E text \in OtherJson : DeserializeOther(text)
    \/ AsStr
    \/ AsRef
    \/ Display
    \/ Serialize
    \/ Clone
    \/ DeserializeWire
    \/ IntoInner
    \/ StringFrom
    \/ Idle /\ \E x \in Inputs, y \in Inputs : Eq(x, y)
    \/ EndScope

Spec == Init /\ [][Next]_vars

NextLeverage ==
    \/ Idle /\ \E v \in Numbers : FromNumber(v)
    \/ EndScope

SpecLeverage == Init /\ [][NextLeverage]_vars

---------------------------------------------------------------------------
(* Properties *)

Constructors == {"try_from", "try_from_str"}

\* C1: a string whose len() is between 1 and 64, both included, is accepted
\* by try_from, and as_str() on the value gives back exactly that string.
C1_ValidAccepted ==
    /\ (ret.op \in Constructors /\ MIN_LEN <= len(ret.arg) /\ len(ret.arg) <= MAX_LEN)
           => (ret.out.tag = "Ok" /\ as_str(ret.out.val) = ret.arg)
    /\ ret.op = "as_str" => ret.out = born

C1_Witness ==
    /\ ret.op = "as_str"
    /\ len(born) = MAX_LEN
    /\ ret.out = born

\* C2: a string of len() below 1, the empty string, is rejected by try_from
\* with TooShort carrying that length, 0.
C2_EmptyTooShort ==
    (ret.op \in Constructors /\ len(ret.arg) < MIN_LEN)
        => (ret.out = Err(TooShort(len(ret.arg))) /\ ret.out.err.len = 0)

C2_Witness ==
    /\ ret.op = "try_from"
    /\ ret.arg = <<>>
    /\ ret.out.tag = "Err"

Live == {o \in {id, copy} : o.tag = "Some"}

\* C4: every live ClientId wraps a string of len() between MIN_LEN and
\* MAX_LEN, and the string it wraps is the one it was constructed from.
C4_LengthInvariant ==
    \A o \in Live :
        /\ MIN_LEN <= len(o.val[1])
        /\ len(o.val[1]) <= MAX_LEN
        /\ o.val[1] = born

C4_Witness ==
    /\ id.tag = "Some"
    /\ copy.tag = "Some"
    /\ ret.op = "roundtrip"
    /\ len(id.val[1]) = MAX_LEN

\* C5: a string of between 1 and 64 characters, multi-byte characters
\* included, is accepted by try_from.
C5_CharCountAccepted ==
    (ret.op \in Constructors
        /\ 1 <= chars_count(ret.arg) /\ chars_count(ret.arg) <= 64)
        => ret.out.tag = "Ok"

\* The message a rejected string of the given len() is reported with.
Message(n) ==
    IF n < 1
    THEN <<"Client ID must be at least ", 1, " character(s). Length: ", n>>
    ELSE <<"Client ID must be at most ", 64, " characters. Length: ", n>>

\* C6: deserializing a JSON string succeeds exactly when try_from accepts
\* the string, and then gives a ClientId of that string; the empty string
\* and a string too long fail with a custom error whose message is the
\* validation error's text.
C6_DeserializeValidates ==
    ret.op = "deserialize" =>
        LET t == try_from(ret.arg)
        IN  /\ ret.out.tag = "Ok" <=> t.tag = "Ok"
            /\ ret.out.tag = "Ok" => as_str(ret.out.val) = ret.arg
            /\ (len(ret.arg) = 0 \/ len(ret.arg) > MAX_LEN) =>
                   /\ ret.out.tag = "Err"
                   /\ ret.out.err.variant = "Custom"
                   /\ ret.out.err.msg = Message(len(ret.arg))

C6_Witness ==
    /\ ret.op = "deserialize"
    /\ len(ret.arg) = MAX_LEN + 1
    /\ ret.out.tag = "Err"

\* C7: a ClientId is serialized as the bare string it wraps, in JSON that
\* string between quotes, and deserializing what was written gives a
\* ClientId equal to the one serialized.
C7_SerdeRoundTrip ==
    /\ ret.op = "serialize" =>
           /\ ret.out.tok.kind = "str"
           /\ ret.out.tok.v = born
           /\ ret.out.json[1] = QUOTE
           /\ Escapes(born) = {} => ret.out.json = <<QUOTE>> \o born \o <<QUOTE>>
    /\ ret.op = "roundtrip" =>
           /\ ret.out.tag = "Ok"
           /\ eq(ret.out.val, id.val)
           /\ as_str(ret.out.val) = born

C7_Witness ==
    /\ ret.op = "roundtrip"
    /\ ret.out.tag = "Ok"
    /\ Escapes(born) # {}
    /\ copy = id

\* C8: into_inner, String::from and Display all give back exactly the
\* string the ClientId was constructed from.
C8_OwnedRoundTrip ==
    ret.op \in {"into_inner", "String_from", "fmt"} => ret.out = born

C8_Witness ==
    /\ ret.op = "into_inner"
    /\ id = None
    /\ chars_count(born) < len(born)
    /\ ret.out = born

\* C9: two ClientIds are equal exactly when the strings they were built
\* from are equal, and equal ClientIds feed the same bytes to a hasher.
C9_EqualityIsStructural ==
    (ret.op = "eq" /\ ret.out.tag = "Some") =>
        /\ ret.out.val.eq <=> ret.arg[1] = ret.arg[2]
        /\ ret.out.val.eq => ret.out.val.hash_eq

C9_Witness ==
    /\ ret.op = "eq"
    /\ ret.out.tag = "Some"
    /\ ~ret.out.val.eq
    /\ len(ret.arg[1]) = len(ret.arg[2])

\* C10: construction from a number succeeds exactly for the whole numbers
\* between MIN and MAX; a number with a fraction fails with NotAnInteger
\* carrying it, whatever its size; TooLow and TooHigh are given only for
\* whole numbers below MIN and above MAX, with an unsigned integer.
C10_LeverageFromNumber ==
    ret.op = "CrossLeverage_try_from" =>
        LET v == ret.arg
            r == ret.out
        IN  /\ r.tag = "Ok" <=>
                   (~v.half /\ CrossLeverageMIN <= v.floor
                        /\ v.floor <= CrossLeverageMAX)
            /\ v.half => r = Err(NotAnInteger(v))
            /\ (r.tag = "Err" /\ r.err.variant = "TooLow") =>
                   (~v.half /\ v.floor < CrossLeverageMIN /\ r.err.value \in Nat)
            /\ (r.tag = "Err" /\ r.err.variant = "TooHigh") =>
                   (~v.half /\ v.floor > CrossLeverageMAX /\ r.err.value \in Nat)

C10_Witness ==
    /\ ret.op = "CrossLeverage_try_from"
    /\ ret.arg.half
    /\ ret.arg.floor > CrossLeverageMAX
    /\ ret.out.tag = "Err"
    /\ ret.out.err.variant = "NotAnInteger"

====
